---- MODULE Spec2Model ----
(***************************************************************************)
(* The navigation and refresh engine of the Honeybadger terminal UI        *)
(* (tui/app.go and the views of package tui).                              *)
(*                                                                         *)
(* Threads: the UI thread (the goroutine that calls App.Run and then runs  *)
(* tview's event loop) and one worker goroutine per App.Push.  The render  *)
(* queue is tview's update queue: QueueUpdate/QueueUpdateDraw/Draw append  *)
(* a closure and return to their caller only after the event loop has      *)
(* executed it.                                                            *)
(*                                                                         *)
(* View kinds: "table" (fetches, keeps a buffer, renders rows, drills      *)
(* down into a menu) and "menu" (a list; Refresh returns nil).  View 1 is  *)
(* the AccountsView.  The current item of a menu's list is not kept: every *)
(* item of a menu opens a table view.  Details pages are not modelled.     *)
(*                                                                         *)
(* The module also holds the run command (cmd/run.go): flag validation,    *)
(* the wrapped command writing to two limitedBuffers that share one        *)
(* sharedLimiter, the check-in report and the exit code.  It has its own   *)
(* next-state relation, RunNext, and its own specification, RunSpec.       *)
(***************************************************************************)
EXTENDS Integers, Sequences, FiniteSets, TLC

\* ---------------------------------------------------------------- bounds
MaxViews == 3      \* views constructed in one run
MaxActive == 1     \* refresh goroutines in flight when a view is pushed
MaxRec == 2        \* distinct records the data client knows
MaxRows == 1       \* records in one response
MaxStops == 2      \* calls of a.app.Stop() in one run
MaxWrites == 3     \* calls of limitedBuffer.Write in one run of the command
MaxExit == 2       \* largest exit code of the wrapped command

\* ------------------------------------------------------- program constants
maxOutputSize == 16384
truncatedMsgLen == 19      \* len("\n[output truncated]")

ViewIds == 1..MaxViews
Records == 1..MaxRec
Errs == {"net"}
EmptyRow == 0

RECURSIVE SeqsUpTo(_)
SeqsUpTo(n) ==
    IF n = 0 THEN {<<>>}
    ELSE LET S == SeqsUpTo(n - 1)
         IN S \cup {Append(s, r) : s \in {t \in S : Len(t) = n - 1}, r \in Records}

\* what the data client can return on success: up to MaxRows records, each
\* record at most once, listed by ascending id
Results == {s \in SeqsUpTo(MaxRows) : \A i \in 1..Len(s) - 1 : s[i] < s[i + 1]}

VARIABLES
    started,    \* App.Run has pushed the root view
    stopped,    \* tview's event loop has ended (Application.Stop)
    canceled,   \* the lifecycle context a.ctx is done
    stops,      \* number of calls of a.app.Stop() so far
    navStack,   \* App.navStack: sequence of view ids, root first
    nviews,     \* number of views constructed so far
    kind,       \* kind[v]: "none" until constructed
    rec,        \* rec[v]: the parent's record the view was built from
    pages,      \* tview.Pages: sequence of [name, prim, visible]
    header,     \* text of App.header
    data,       \* data[v]: the view's buffer (v.faults, v.accounts, ...)
    rendered,   \* rendered[v]: body rows of the table / painted text
    sel,        \* sel[v]: selected table row (0 is the header row)
    queue,      \* tview update queue, FIFO
    wpc,        \* wpc[v]: position of the goroutine started by Push(v)
    wres,       \* wres[v]: that goroutine's local fetch result / error
    ui,         \* position of the UI thread
    last,       \* the operation the last step performed, if it is a marked one
    hi,         \* the call of View.HandleInput the last step made, if any
    wh          \* wh[v]: bookkeeping of the refresh task started by Push(v)

\* the run command
VARIABLES
    rpc,          \* position of RunE
    flags,        \* [id, slug, key]: --id, --slug and the API key are set
    executed,     \* execCmd.Run() has been called
    runExitCode,  \* the package variable runExitCode
    sent,         \* the check-in payloads handed to http.DefaultClient.Do
    exited,       \* <<c>> once the process has ended with exit code c
    remaining,    \* sharedLimiter.remaining
    mu,           \* sharedLimiter.mu: "free" or the buffer whose Write holds it
    lbuf,         \* lbuf[b]: [buffer, truncated] of the limitedBuffer b
    wr,           \* wr[b]: the Write call on b under way: [pc, p, ret]
    nwrites,      \* Write calls made so far
    cut           \* cut[b]: bytes written to b were left out of its buffer

runVars == <<rpc, flags, executed, runExitCode, sent, exited, remaining, mu,
             lbuf, wr, nwrites, cut>>

tuiVars == <<started, stopped, canceled, stops, navStack, nviews, kind, rec, pages,
             header, data, rendered, sel, queue, wpc, wres, ui, last, hi, wh>>

vars == <<started, stopped, canceled, stops, navStack, nviews, kind, rec, pages,
          header, data, rendered, sel, queue, wpc, wres, ui, last, hi, wh,
          rpc, flags, executed, runExitCode, sent, exited, remaining, mu,
          lbuf, wr, nwrites, cut>>

Buffers == {"stdout", "stderr"}

\* no Write call under way: the last call had len(p) = p and returned (n, e)
WrIdle(p, n, e) == [pc |-> "idle", p |-> p, ret |-> [n |-> n, err |-> e]]

\* the state of the run command before RunE is called
RunInit ==
    /\ rpc = "args"
    /\ flags = [id |-> FALSE, slug |-> FALSE, key |-> FALSE]
    /\ executed = FALSE
    /\ runExitCode = 0
    /\ sent = <<>>
    /\ exited = <<>>
    /\ remaining = maxOutputSize
    /\ mu = "free"
    /\ lbuf = [b \in Buffers |-> [buffer |-> <<>>, truncated |-> FALSE]]
    /\ wr = [b \in Buffers |-> WrIdle(0, 0, FALSE)]
    /\ nwrites = 0
    /\ cut = [b \in Buffers |-> FALSE]

appVars == <<started, stopped, canceled, stops>>
navVars == <<navStack, nviews, kind, rec, pages, header>>
viewVars == <<data, rendered, sel>>
workerVars == <<wpc, wres>>

\* ------------------------------------------------------------ view names
RecName(r) == "acct-" \o ToString(r)

Name(k, r, v) ==
    IF k = "menu" THEN RecName(r)
    ELSE IF v = 1 THEN "Accounts"
    ELSE "Faults"

RECURSIVE Join(_, _)
Join(parts, sep) ==
    IF Len(parts) = 0 THEN ""
    ELSE IF Len(parts) = 1 THEN parts[1]
    ELSE parts[1] \o sep \o Join(Tail(parts), sep)

\* the box-drawing bar of the source is written as |
HeaderPrefix == " [yellow]Honeybadger[white] | "

updateHeader(stack, kd, rc) ==
    HeaderPrefix \o Join([i \in 1..Len(stack) |-> Name(kd[stack[i]], rc[stack[i]], stack[i])], " > ")

\* ----------------------------------------------------------------- pages
PageName(n) == "page-" \o ToString(n)

ViewPrim(v) == [type |-> "view", view |-> v, text |-> ""]
ModalPrim(t) == [type |-> "modal", view |-> 0, text |-> t]

RemovePage(ps, name) == SelectSeq(ps, LAMBDA p : p.name # name)

AddPage(ps, name, prim) ==
    Append(RemovePage(ps, name), [name |-> name, prim |-> prim, visible |-> TRUE])

SwitchToPage(ps, name) ==
    [i \in 1..Len(ps) |-> [ps[i] EXCEPT !.visible = (ps[i].name = name)]]

HasPage(ps, name) == \E i \in 1..Len(ps) : ps[i].name = name

VisibleIdx(ps) == {i \in 1..Len(ps) : ps[i].visible}

\* the page drawn last, which also holds the focus
TopPage(ps) ==
    LET I == VisibleIdx(ps)
    IN IF I = {} THEN [name |-> "", prim |-> ModalPrim(""), visible |-> FALSE]
       ELSE ps[CHOOSE i \in I : \A j \in I : j <= i]

\* fmt.Errorf("failed to list faults: %w", err)
Wrap(e) == "failed to list: " \o e

ErrorText(e) == "Error: " \o e

ShowError(ps, e) == AddPage(ps, "error", ModalPrim(ErrorText(e)))

HelpText == "Honeybadger TUI Help"

ShowHelp(ps) == AddPage(ps, "help", ModalPrim(HelpText))

\* ------------------------------------------------------------ rendering
\* renderTable: clear the body rows, one row per buffer entry; the
\* AccountsView paints a "No accounts found" row for an empty buffer
renderRows(v, buf) ==
    IF Len(buf) = 0 /\ v = 1 THEN <<EmptyRow>> ELSE buf

renderSel(v, buf, old) ==
    IF Len(buf) > 0 THEN 1 ELSE old

GetRowCount(rows) == 1 + Len(rows)

Top == navStack[Len(navStack)]

\* no call of HandleInput
NoCall == [view |-> 0, key |-> "", depth |-> 0, consumed |-> FALSE]

UIIdle == [pc |-> "idle", view |-> 0, snapData |-> <<>>, snapRows |-> <<>>,
           conc |-> FALSE, row |-> 0]

Init ==
    /\ started = FALSE
    /\ stopped = FALSE
    /\ canceled = FALSE
    /\ stops = 0
    /\ navStack = <<>>
    /\ nviews = 0
    /\ kind = [v \in ViewIds |-> "none"]
    /\ rec = [v \in ViewIds |-> 0]
    /\ pages = <<>>
    /\ header = ""
    /\ data = [v \in ViewIds |-> <<>>]
    /\ rendered = [v \in ViewIds |-> <<>>]
    /\ sel = [v \in ViewIds |-> 0]
    /\ queue = <<>>
    /\ wpc = [v \in ViewIds |-> "idle"]
    /\ wres = [v \in ViewIds |-> ""]
    /\ ui = UIIdle
    /\ last = "-"
    /\ hi = NoCall
    /\ wh = [v \in ViewIds |-> [calls |-> 0, deliv |-> 0]]
    /\ RunInit

\* -------------------------------------------------------------- Push / Pop
\* the operations whose occurrence the properties need to see
Marked == {"PopNoop", "RFetchErr", "Quit", "CtrlC", "Dismiss", "StopAgain"}

Mark(op, actor, v) == last' = IF op \in Marked THEN op ELSE "-"

\* the goroutines of Push that have not returned yet
Active == {v \in ViewIds : wpc[v] \notin {"idle", "done"}}

\* Push without the goroutine that refreshes the new view
Push_NoRefresh(k, r) ==
    LET v == nviews + 1
        stack == Append(navStack, v)
        name == PageName(Len(stack))
    IN /\ nviews < MaxViews
       /\ Cardinality(Active) < MaxActive
       /\ nviews' = v
       /\ kind' = [kind EXCEPT ![v] = k]
       /\ rec' = [rec EXCEPT ![v] = r]
       /\ navStack' = stack
       /\ pages' = SwitchToPage(AddPage(pages, name, ViewPrim(v)), name)
       /\ header' = updateHeader(stack, kind', rec')
       /\ wpc' = wpc

\* App.Push of a freshly constructed view of kind k built from record r
Push(k, r) ==
    LET v == nviews + 1
        stack == Append(navStack, v)
        name == PageName(Len(stack))
    IN /\ nviews < MaxViews
       /\ Cardinality(Active) < MaxActive
       /\ nviews' = v
       /\ kind' = [kind EXCEPT ![v] = k]
       /\ rec' = [rec EXCEPT ![v] = r]
       /\ navStack' = stack
       /\ pages' = SwitchToPage(AddPage(pages, name, ViewPrim(v)), name)
       /\ header' = updateHeader(stack, kind', rec')
       /\ wpc' = [wpc EXCEPT ![v] = "check0"]

\* Pop that switches pages without removing the page of the popped view
Pop_KeepsPage ==
    IF Len(navStack) <= 1
    THEN UNCHANGED <<navStack, pages, header>>
    ELSE LET stack == SubSeq(navStack, 1, Len(navStack) - 1)
         IN /\ pages' = SwitchToPage(pages, PageName(Len(stack)))
            /\ navStack' = stack
            /\ header' = updateHeader(stack, kind, rec)

\* Pop without the depth guard
Pop_NoGuard ==
    LET stack == SubSeq(navStack, 1, Len(navStack) - 1)
    IN /\ pages' = SwitchToPage(RemovePage(pages, PageName(Len(navStack))),
                                PageName(Len(stack)))
       /\ navStack' = stack
       /\ header' = updateHeader(stack, kind, rec)

\* Pop that forgets to recompute the header
Pop_StaleHeader ==
    IF Len(navStack) <= 1
    THEN UNCHANGED <<navStack, pages, header>>
    ELSE LET stack == SubSeq(navStack, 1, Len(navStack) - 1)
         IN /\ pages' = SwitchToPage(RemovePage(pages, PageName(Len(navStack))),
                                     PageName(Len(stack)))
            /\ navStack' = stack
            /\ header' = header

\* App.Pop
Pop ==
    IF Len(navStack) <= 1
    THEN UNCHANGED <<navStack, pages, header>>
    ELSE LET stack == SubSeq(navStack, 1, Len(navStack) - 1)
         IN /\ pages' = SwitchToPage(RemovePage(pages, PageName(Len(navStack))),
                                     PageName(Len(stack)))
            /\ navStack' = stack
            /\ header' = updateHeader(stack, kind, rec)

UIReady == started /\ ~stopped /\ ui.pc = "idle"

\* App.Run up to the call of tview's Run: the root view is pushed
Start ==
    /\ hi' = NoCall
    /\ UNCHANGED runVars
    /\ ~started
    /\ started' = TRUE
    /\ Push("table", 0)
    /\ Mark("Push", "ui", 1)
    /\ UNCHANGED <<stopped, canceled, stops, viewVars, queue, wres, ui, wh>>

\* a direct call of the exported App.Pop on the UI thread
PopCall ==
    /\ hi' = NoCall
    /\ UNCHANGED runVars
    /\ UIReady
    /\ Pop
    /\ Mark(IF Len(navStack) <= 1 THEN "PopNoop" ELSE "Pop", "ui", Top)
    /\ UNCHANGED <<appVars, nviews, kind, rec, viewVars, queue, workerVars, ui, wh>>

\* ------------------------------------------------- refresh task of Push
\* the goroutine of Push: first token check, then the call of Refresh
WCheck0(v) ==
    /\ hi' = NoCall
    /\ UNCHANGED runVars
    /\ wpc[v] = "check0"
    /\ IF canceled
       THEN /\ wpc' = [wpc EXCEPT ![v] = "done"]
            /\ UNCHANGED wh
       ELSE /\ wpc' = [wpc EXCEPT ![v] =
                        IF kind[v] = "table" THEN "fetch" ELSE "drawCheck"]
            /\ wh' = [wh EXCEPT ![v].calls = @ + 1]
    /\ Mark("WCheck0", "worker", v)
    /\ UNCHANGED <<appVars, navVars, viewVars, queue, wres, ui>>

\* Refresh that repaints the table itself instead of queueing the repaint
WFetchOk_Direct(v, d) ==
    /\ hi' = NoCall
    /\ UNCHANGED runVars
    /\ wpc[v] = "fetch"
    /\ data' = [data EXCEPT ![v] = d]
    /\ rendered' = [rendered EXCEPT ![v] = renderRows(v, d)]
    /\ sel' = [sel EXCEPT ![v] = renderSel(v, d, sel[v])]
    /\ wpc' = [wpc EXCEPT ![v] = "drawCheck"]
    /\ Mark("WFetchOk", "worker", v)
    /\ UNCHANGED <<appVars, navVars, queue, wres, ui, wh>>

\* the data client returns records: v.faults = response.Results
WFetchOk(v, d) ==
    /\ hi' = NoCall
    /\ UNCHANGED runVars
    /\ wpc[v] = "fetch"
    /\ data' = [data EXCEPT ![v] = d]
    /\ wpc' = [wpc EXCEPT ![v] = "enq"]
    /\ Mark("WFetchOk", "worker", v)
    /\ UNCHANGED <<appVars, navVars, rendered, sel, queue, wres, ui, wh>>

\* a goroutine that leaves the view whose load failed by itself
WFetchErr_Pops(v, e) ==
    /\ hi' = NoCall
    /\ UNCHANGED runVars
    /\ wpc[v] = "fetch"
    /\ wpc' = [wpc EXCEPT ![v] = "done"]
    /\ IF Len(navStack) > 1
       THEN LET stack == SubSeq(navStack, 1, Len(navStack) - 1)
            IN /\ pages' = SwitchToPage(RemovePage(pages, PageName(Len(navStack))),
                                        PageName(Len(stack)))
               /\ navStack' = stack
               /\ header' = updateHeader(stack, kind, rec)
       ELSE UNCHANGED <<navStack, pages, header>>
    /\ Mark("WFetchErr", "worker", v)
    /\ UNCHANGED <<appVars, nviews, kind, rec, viewVars, queue, wres, ui, wh>>

\* the data client returns an error: Refresh returns it wrapped, and the
\* goroutine checks the token before it queues the error overlay
WFetchErr(v, e) ==
    /\ hi' = NoCall
    /\ UNCHANGED runVars
    /\ wpc[v] = "fetch"
    /\ IF canceled
       THEN /\ wpc' = [wpc EXCEPT ![v] = "done"]
            /\ UNCHANGED wres
       ELSE /\ wpc' = [wpc EXCEPT ![v] = "enqErr"]
            /\ wres' = [wres EXCEPT ![v] = Wrap(e)]
    /\ Mark("WFetchErr", "worker", v)
    /\ UNCHANGED <<appVars, navVars, viewVars, queue, ui, wh>>

\* closures of the update queue; owner is the goroutine waiting for it (0:
\* the UI thread); made records the buffer its refresh had just produced
RenderClosure(v, o, d) == [type |-> "render", view |-> v, owner |-> o, text |-> "", made |-> d]
ErrorClosure(v, o, e) == [type |-> "error", view |-> v, owner |-> o, text |-> e, made |-> <<>>]
DrawClosure(v, o) == [type |-> "draw", view |-> v, owner |-> o, text |-> "", made |-> <<>>]

\* QueueUpdateDraw(func() { v.renderTable() }), first half: the send
WEnqRender(v) ==
    /\ hi' = NoCall
    /\ UNCHANGED runVars
    /\ wpc[v] = "enq"
    /\ queue' = Append(queue, RenderClosure(v, v, data[v]))
    /\ wpc' = [wpc EXCEPT ![v] = "waitRender"]
    /\ Mark("WEnqRender", "worker", v)
    /\ UNCHANGED <<appVars, navVars, viewVars, wres, ui, wh>>

\* QueueUpdateDraw(func() { a.ShowError(err) }), first half: the send
WEnqError(v) ==
    /\ hi' = NoCall
    /\ UNCHANGED runVars
    /\ wpc[v] = "enqErr"
    /\ queue' = Append(queue, ErrorClosure(v, v, wres[v]))
    /\ wpc' = [wpc EXCEPT ![v] = "waitErr"]
    /\ Mark("WEnqError", "worker", v)
    /\ UNCHANGED <<appVars, navVars, viewVars, wres, ui, wh>>

\* token check and, unless canceled, a.app.Draw(), first half: the send
WDraw(v) ==
    /\ hi' = NoCall
    /\ UNCHANGED runVars
    /\ wpc[v] = "drawCheck"
    /\ IF canceled
       THEN /\ wpc' = [wpc EXCEPT ![v] = "done"]
            /\ UNCHANGED queue
       ELSE /\ wpc' = [wpc EXCEPT ![v] = "waitDraw"]
            /\ queue' = Append(queue, DrawClosure(v, v))
    /\ Mark("WDraw", "worker", v)
    /\ UNCHANGED <<appVars, navVars, viewVars, wres, ui, wh>>

\* ------------------------------------------------------------ event loop
\* where the owner of an executed closure continues
AfterDone(pc) ==
    IF pc = "waitRender" THEN "drawCheck"
    ELSE IF pc = "waitErr" THEN "drawCheck"
    ELSE IF pc = "waitDraw" THEN "done"
    ELSE pc

\* the view's repaint: renderTable
Paint(v) ==
    /\ rendered' = [rendered EXCEPT ![v] = renderRows(v, data[v])]
    /\ sel' = [sel EXCEPT ![v] = renderSel(v, data[v], sel[v])]

\* the event loop takes the oldest update, runs it and signals its sender
ExecUpdate ==
    /\ hi' = NoCall
    /\ UNCHANGED runVars
    /\ UIReady
    /\ Len(queue) > 0
    /\ LET c == Head(queue)
       IN /\ queue' = Tail(queue)
          /\ IF c.type = "render"
             THEN Paint(c.view) /\ UNCHANGED pages
             ELSE IF c.type = "error"
             THEN pages' = ShowError(pages, c.text) /\ UNCHANGED <<rendered, sel>>
             ELSE UNCHANGED <<pages, rendered, sel>>
          /\ wpc' = [wpc EXCEPT ![c.owner] = AfterDone(@)]
          /\ wh' = [wh EXCEPT ![c.owner].deliv = IF c.type = "draw" THEN @ ELSE @ + 1]
          /\ Mark("Exec_" \o c.type, "ui", c.view)
    /\ UNCHANGED <<appVars, navStack, nviews, kind, rec, header, data, wres, ui>>

\* ------------------------------------------------------------ key events
BackKeys == {"Escape", "Left"}
ViewKeys == {"j", "k", "h", "Enter", "l", "x"}

isSelectKey(k) == k \in {"Enter", "Right", "l"}

\* frames of the three things a key handler can do to the navigation
DoPush(k, r) ==
    /\ Push(k, r)
    /\ Mark("Push", "ui", nviews + 1)
    /\ UNCHANGED <<appVars, viewVars, queue, wres, ui, wh>>

\* back navigation that reloads the view it returns to
DoPop_Refetch ==
    /\ Pop
    /\ wpc' = IF Len(navStack) > 1
              THEN [wpc EXCEPT ![navStack[Len(navStack) - 1]] = "check0"]
              ELSE wpc
    /\ Mark(IF Len(navStack) <= 1 THEN "PopNoop" ELSE "Pop", "ui", Top)
    /\ UNCHANGED <<appVars, nviews, kind, rec, viewVars, queue, wres, ui, wh>>

DoPop ==
    /\ Pop
    /\ Mark(IF Len(navStack) <= 1 THEN "PopNoop" ELSE "Pop", "ui", Top)
    /\ UNCHANGED <<appVars, nviews, kind, rec, viewVars, queue, workerVars, ui, wh>>

DoStop(op) ==
    /\ stopped' = TRUE
    /\ stops' = stops + 1
    /\ Mark(op, "ui", Top)
    /\ UNCHANGED <<started, canceled, navVars, viewVars, queue, workerVars, ui, wh>>

DoSelect(v, row) ==
    /\ sel' = [sel EXCEPT ![v] = row]
    /\ Mark("Select", "ui", v)
    /\ UNCHANGED <<appVars, navVars, data, rendered, queue, workerVars, ui, wh>>

\* the bounds test of a select key has passed for row: the handler goes on
\* to read the buffer at row - 1
DoDrill(v, row) ==
    /\ nviews < MaxViews
    /\ Cardinality(Active) < MaxActive
    /\ ui' = [UIIdle EXCEPT !.pc = "drill", !.view = v, !.row = row]
    /\ Mark("SelectRow", "ui", v)
    /\ UNCHANGED <<appVars, navVars, viewVars, queue, workerVars, wh>>

DoNothing(op) ==
    /\ Mark(op, "ui", Top)
    /\ UNCHANGED <<appVars, navVars, viewVars, queue, workerVars, ui, wh>>

\* an event the input capture returned goes to the primitive with the focus
ToFocused(k) ==
    LET p == TopPage(pages)
    IN IF p.prim.type = "modal" /\ k \in {"Enter", "Escape"}
       THEN /\ pages' = RemovePage(pages, p.name)
            /\ Mark("Dismiss", "ui", Top)
            /\ UNCHANGED <<appVars, navStack, nviews, kind, rec, header, viewVars,
                           queue, workerVars, ui, wh>>
       ELSE IF p.prim.type = "view" /\ kind[p.prim.view] = "menu" /\ k = "Enter"
       THEN DoPush("table", rec[p.prim.view])
       ELSE DoNothing("Unhandled")

\* whether HandleInput of view v returns nil (consumed) for key k
Consumes(v, k) ==
    IF kind[v] = "table"
    THEN k \in {"j", "k"} \/ (k = "h" /\ v # 1) \/ isSelectKey(k)
    ELSE k \in {"j", "k", "h"}

\* the record of a call of v.HandleInput with key k
Call(v, k) == [view |-> v, key |-> k, depth |-> Len(navStack), consumed |-> Consumes(v, k)]

\* HandleInput in which the table views do not bind 'h'
HandleInput_NoBack(v, k) ==
    IF kind[v] = "table"
    THEN IF k = "j"
         THEN DoSelect(v, IF sel[v] < GetRowCount(rendered[v]) - 1 THEN sel[v] + 1 ELSE sel[v])
         ELSE IF k = "k"
         THEN DoSelect(v, IF sel[v] > 1 THEN sel[v] - 1 ELSE sel[v])
         ELSE IF isSelectKey(k)
         THEN IF sel[v] > 0 /\ sel[v] <= Len(data[v])
              THEN DoDrill(v, sel[v])
              ELSE DoNothing("SelectNone")
         ELSE ToFocused(k)
    ELSE IF k \in {"j", "k"}
         THEN DoNothing("ListNav")
         ELSE IF k = "h"
         THEN DoPop
         ELSE ToFocused(k)

\* HandleInput whose select branch tests only row > 0
HandleInput_NoBounds(v, k) ==
    IF kind[v] = "table"
    THEN IF k = "j"
         THEN DoSelect(v, IF sel[v] < GetRowCount(rendered[v]) - 1 THEN sel[v] + 1 ELSE sel[v])
         ELSE IF k = "k"
         THEN DoSelect(v, IF sel[v] > 1 THEN sel[v] - 1 ELSE sel[v])
         ELSE IF k = "h" /\ v # 1
         THEN DoPop
         ELSE IF isSelectKey(k)
         THEN IF sel[v] > 0
              THEN DoDrill(v, sel[v])
              ELSE DoNothing("SelectNone")
         ELSE ToFocused(k)
    ELSE IF k \in {"j", "k"}
         THEN DoNothing("ListNav")
         ELSE IF k = "h"
         THEN DoPop
         ELSE ToFocused(k)

\* View.HandleInput of the view on top of the stack
HandleInput(v, k) ==
    IF kind[v] = "table"
    THEN IF k = "j"
         THEN DoSelect(v, IF sel[v] < GetRowCount(rendered[v]) - 1 THEN sel[v] + 1 ELSE sel[v])
         ELSE IF k = "k"
         THEN DoSelect(v, IF sel[v] > 1 THEN sel[v] - 1 ELSE sel[v])
         ELSE IF k = "h" /\ v # 1
         THEN DoPop
         ELSE IF isSelectKey(k)
         THEN IF sel[v] > 0 /\ sel[v] <= Len(data[v])
              THEN DoDrill(v, sel[v])
              ELSE DoNothing("SelectNone")
         ELSE ToFocused(k)
    ELSE IF k \in {"j", "k"}
         THEN DoNothing("ListNav")
         ELSE IF k = "h"
         THEN DoPop
         ELSE ToFocused(k)

\* Escape / Left handed to the view without the depth test
KeyBack_ViewFirst(k) ==
    /\ UIReady
    /\ UNCHANGED runVars
    /\ HandleInput(Top, k)
    /\ hi' = Call(Top, k)

\* Escape / Left that quit at the root view, as 'q' does
KeyBack_Stops(k) ==
    /\ hi' = NoCall
    /\ UNCHANGED runVars
    /\ UIReady
    /\ IF Len(navStack) > 1 THEN DoPop ELSE DoStop("Back")

\* Escape / Left
KeyBack(k) ==
    /\ UIReady
    /\ UNCHANGED runVars
    /\ IF Len(navStack) > 1
       THEN DoPop /\ hi' = NoCall
       ELSE HandleInput(Top, k) /\ hi' = Call(Top, k)

KeyCtrlC ==
    /\ hi' = NoCall
    /\ UNCHANGED runVars
    /\ UIReady
    /\ DoStop("CtrlC")

\* a quit key that stops the application at every depth
KeyQuit_AlwaysStops ==
    /\ hi' = NoCall
    /\ UNCHANGED runVars
    /\ UIReady
    /\ DoStop("Quit")

KeyQuit ==
    /\ hi' = NoCall
    /\ UNCHANGED runVars
    /\ UIReady
    /\ IF Len(navStack) > 1 THEN DoPop ELSE DoStop("Quit")

\* a help key that also leaves the current view
KeyHelp_Pops ==
    /\ hi' = NoCall
    /\ UNCHANGED runVars
    /\ UIReady
    /\ IF Len(navStack) <= 1
       THEN /\ pages' = ShowHelp(pages)
            /\ UNCHANGED <<navStack, header>>
       ELSE LET stack == SubSeq(navStack, 1, Len(navStack) - 1)
            IN /\ pages' = ShowHelp(SwitchToPage(RemovePage(pages, PageName(Len(navStack))),
                                                 PageName(Len(stack))))
               /\ navStack' = stack
               /\ header' = updateHeader(stack, kind, rec)
    /\ Mark("Help", "ui", Top)
    /\ UNCHANGED <<appVars, nviews, kind, rec, viewVars, queue, workerVars, ui, wh>>

KeyHelp ==
    /\ hi' = NoCall
    /\ UNCHANGED runVars
    /\ UIReady
    /\ pages' = ShowHelp(pages)
    /\ Mark("Help", "ui", Top)
    /\ UNCHANGED <<appVars, navStack, nviews, kind, rec, header, viewVars, queue,
                   workerVars, ui, wh>>

\* forwarding to the root view instead of the view on top
KeyView_Root(k) ==
    /\ UIReady
    /\ UNCHANGED runVars
    /\ HandleInput(navStack[1], k)
    /\ hi' = Call(navStack[1], k)

KeyView(k) ==
    /\ UIReady
    /\ UNCHANGED runVars
    /\ HandleInput(Top, k)
    /\ hi' = Call(Top, k)

\* the select branch after its bounds test: v.drillDown(v.faults[row-1]);
\* an index outside the buffer is a runtime panic, which ends the program
DrillDown ==
    /\ hi' = NoCall
    /\ UNCHANGED runVars
    /\ started /\ ~stopped
    /\ ui.pc = "drill"
    /\ IF ui.row - 1 \in 0..(Len(data[ui.view]) - 1)
       THEN /\ Push("menu", data[ui.view][ui.row])
            /\ ui' = UIIdle
            /\ Mark("Push", "ui", nviews + 1)
            /\ UNCHANGED <<appVars, viewVars, queue, wres, wh>>
       ELSE /\ ui' = [UIIdle EXCEPT !.pc = "panic", !.view = ui.view, !.row = ui.row]
            /\ Mark("Panic", "ui", ui.view)
            /\ UNCHANGED <<appVars, navVars, viewVars, queue, workerVars, wh>>

\* -------------------------------------------- 'r': Refresh on the UI thread
\* the refresh started by Push(v) is pending or has not returned yet
RefreshInFlight(v) == wpc[v] \in {"check0", "fetch", "enq", "waitRender"}

\* the key handler calls currentView.Refresh() itself
KeyRefresh ==
    /\ hi' = NoCall
    /\ UNCHANGED runVars
    /\ UIReady
    /\ LET v == Top
       IN /\ IF kind[v] = "table"
             THEN /\ ui' = [pc |-> "rFetch", view |-> v,
                            snapData |-> data[v], snapRows |-> rendered[v],
                            conc |-> RefreshInFlight(v), row |-> 0]
             ELSE UNCHANGED ui
          /\ Mark("RefreshKey", "ui", v)
    /\ UNCHANGED <<appVars, navVars, viewVars, queue, workerVars, wh>>

RFetchOk(d) ==
    /\ hi' = NoCall
    /\ UNCHANGED runVars
    /\ ui.pc = "rFetch"
    /\ data' = [data EXCEPT ![ui.view] = d]
    /\ ui' = [UIIdle EXCEPT !.pc = "rEnq", !.view = ui.view, !.conc = ui.conc]
    /\ Mark("RFetchOk", "ui", ui.view)
    /\ UNCHANGED <<appVars, navVars, rendered, sel, queue, workerVars, wh>>

\* a failing Refresh that ends the application
RFetchErr_Fatal(e) ==
    /\ hi' = NoCall
    /\ UNCHANGED runVars
    /\ ui.pc = "rFetch"
    /\ ui' = UIIdle
    /\ stopped' = TRUE
    /\ Mark("RFetchErr", "ui", ui.view)
    /\ UNCHANGED <<started, canceled, stops, navVars, viewVars, queue, workerVars, wh>>

\* a failing Refresh that empties the buffer before it returns the error
RFetchErr_Clears(e) ==
    /\ hi' = NoCall
    /\ UNCHANGED runVars
    /\ ui.pc = "rFetch"
    /\ ui' = UIIdle
    /\ data' = [data EXCEPT ![ui.view] = <<>>]
    /\ pages' = ShowError(pages, Wrap(e))
    /\ Mark("RFetchErr", "ui", ui.view)
    /\ UNCHANGED <<appVars, navStack, nviews, kind, rec, header, rendered, sel, queue,
                   workerVars, wh>>

\* Refresh returned an error to the key handler, which shows it itself
RFetchErr(e) ==
    /\ hi' = NoCall
    /\ UNCHANGED runVars
    /\ ui.pc = "rFetch"
    /\ ui' = UIIdle
    /\ pages' = ShowError(pages, Wrap(e))
    /\ Mark("RFetchErr", "ui", ui.view)
    /\ UNCHANGED <<appVars, navStack, nviews, kind, rec, header, viewVars, queue,
                   workerVars, wh>>

\* a Refresh on the UI thread that returns to the 'r' handler without
\* waiting for the repaint
REnqRender_Returns ==
    /\ hi' = NoCall
    /\ UNCHANGED runVars
    /\ ui.pc = "rEnq"
    /\ ui' = UIIdle
    /\ Mark("REnqRender", "ui", ui.view)
    /\ UNCHANGED <<appVars, navVars, viewVars, queue, workerVars, wh>>

\* QueueUpdateDraw called on the UI thread: the send succeeds, the wait for
\* the event loop to run the closure never ends
REnqRender ==
    /\ hi' = NoCall
    /\ UNCHANGED runVars
    /\ ui.pc = "rEnq"
    /\ queue' = Append(queue, RenderClosure(ui.view, 0, data[ui.view]))
    /\ ui' = [ui EXCEPT !.pc = "blocked"]
    /\ Mark("REnqRender", "ui", ui.view)
    /\ UNCHANGED <<appVars, navVars, viewVars, workerVars, wh>>

\* tview's Run has returned: the deferred a.cancel() runs
RunReturn ==
    /\ hi' = NoCall
    /\ UNCHANGED runVars
    /\ stopped
    /\ ~canceled
    /\ canceled' = TRUE
    /\ Mark("Cancel", "ui", 0)
    /\ UNCHANGED <<started, stopped, stops, navVars, viewVars, queue, workerVars, ui, wh>>

\* the keys that reach a.app.Stop() in the input capture at stack depth n
StopKeys(n) == IF n <= 1 THEN {"CtrlC", "q"} ELSE {"CtrlC"}

\* a second stop request that restarts the event loop
StopAgain_Restart(k) ==
    /\ hi' = NoCall
    /\ UNCHANGED runVars
    /\ stopped /\ ~canceled
    /\ stops < MaxStops
    /\ k \in StopKeys(Len(navStack))
    /\ stops' = stops + 1
    /\ stopped' = FALSE
    /\ Mark("StopAgain", "ui", Top)
    /\ UNCHANGED <<started, canceled, navVars, viewVars, queue, workerVars, ui, wh>>

\* a quit key that was already buffered when Stop was called and is taken
\* before tview's Run returns: the input capture calls a.app.Stop() again,
\* which does nothing on an application that is already stopped
StopAgain(k) ==
    /\ hi' = NoCall
    /\ UNCHANGED runVars
    /\ stopped /\ ~canceled
    /\ stops < MaxStops
    /\ k \in StopKeys(Len(navStack))
    /\ stops' = stops + 1
    /\ Mark("StopAgain", "ui", Top)
    /\ UNCHANGED <<started, stopped, canceled, navVars, viewVars, queue, workerVars, ui, wh>>

Next ==
    \/ Start
    \/ PopCall
    \/ \E k \in BackKeys : KeyBack(k)
    \/ KeyCtrlC
    \/ KeyQuit
    \/ KeyHelp
    \/ \E k \in ViewKeys : KeyView(k)
    \/ DrillDown
    \/ KeyRefresh
    \/ \E d \in Results : RFetchOk(d)
    \/ \E e \in Errs : RFetchErr(e)
    \/ REnqRender
    \/ ExecUpdate
    \/ RunReturn
    \/ \E k \in {"CtrlC", "q"} : StopAgain(k)
    \/ \E v \in ViewIds : WCheck0(v)
    \/ \E v \in ViewIds, d \in Results : WFetchOk(v, d)
    \/ \E v \in ViewIds, e \in Errs : WFetchErr(v, e)
    \/ \E v \in ViewIds : WEnqRender(v)
    \/ \E v \in ViewIds : WEnqError(v)
    \/ \E v \in ViewIds : WDraw(v)

Spec == Init /\ [][Next]_vars

TypeOK ==
    /\ Len(navStack) <= MaxViews
    /\ nviews \in 0..MaxViews
    /\ stops \in 0..MaxStops

\* ------------------------------------------------------ the run command
\* the content of a bytes.Buffer: runs of output bytes and copies of
\* truncatedMsg, in the order they were written
DataChunk(n) == [t |-> "data", n |-> n]
MsgChunk == [t |-> "msg", n |-> truncatedMsgLen]

\* buffer.Write(p[:n])
BufWrite(buf, n) ==
    IF Len(buf) > 0 /\ buf[Len(buf)].t = "data"
    THEN [buf EXCEPT ![Len(buf)].n = @ + n]
    ELSE Append(buf, DataChunk(n))

\* buffer.WriteString(truncatedMsg)
BufWriteMsg(buf) == Append(buf, MsgChunk)

\* len(b.String())
RECURSIVE BufLen(_)
BufLen(buf) == IF buf = <<>> THEN 0 ELSE buf[1].n + BufLen(Tail(buf))

\* strings.Contains(b.String(), truncatedMsg), the output bytes themselves
\* not spelling the marker
HasMsg(buf) == \E i \in 1..Len(buf) : buf[i].t = "msg"

\* the lengths of p the wrapped command writes with
WriteSizes == {0, 1, truncatedMsgLen - 1, truncatedMsgLen, truncatedMsgLen + 1,
               maxOutputSize \div 2, maxOutputSize \div 2 + 100, maxOutputSize}

ExitCodes == -1..MaxExit

\* the three tests RunE makes on its flags before it runs anything
FlagsValid(f) ==
    /\ ~(~f.id /\ ~f.slug)
    /\ ~(f.id /\ f.slug)
    /\ ~(f.slug /\ ~f.key)

\* RunE up to execCmd.Run(): a validation error is returned before the
\* command is built
RunE(i, s, k) ==
    LET f == [id |-> i, slug |-> s, key |-> k]
    IN /\ rpc = "args"
       /\ flags' = f
       /\ IF FlagsValid(f)
          THEN rpc' = "running" /\ executed' = TRUE
          ELSE rpc' = "rejected" /\ UNCHANGED executed
       /\ UNCHANGED <<runExitCode, sent, exited, remaining, mu, lbuf, wr, nwrites, cut>>
       /\ UNCHANGED tuiVars

\* limitedBuffer.Write up to the Lock: an empty p returns (0, nil) at once
WriteCall(b, n) ==
    /\ rpc = "running"
    /\ wr[b].pc = "idle"
    /\ nwrites < MaxWrites
    /\ nwrites' = nwrites + 1
    /\ wr' = [wr EXCEPT ![b] = IF n = 0 THEN WrIdle(0, 0, FALSE)
                                ELSE [pc |-> "lock", p |-> n, ret |-> @.ret]]
    /\ UNCHANGED <<rpc, flags, executed, runExitCode, sent, exited, remaining, mu, lbuf, cut>>
    /\ UNCHANGED tuiVars

\* b.limiter.mu.Lock()
WriteLock(b) ==
    /\ wr[b].pc = "lock"
    /\ mu = "free"
    /\ mu' = b
    /\ wr' = [wr EXCEPT ![b].pc = "crit"]
    /\ UNCHANGED <<rpc, flags, executed, runExitCode, sent, exited, remaining, lbuf, nwrites, cut>>
    /\ UNCHANGED tuiVars

\* what Write does to the buffer and the limiter while it holds the lock
WriteEffect(b, p) ==
    IF remaining <= 0
    THEN /\ lbuf' = [lbuf EXCEPT ![b].truncated = TRUE]
         /\ UNCHANGED remaining
    ELSE IF p > remaining
    THEN LET reserve == IF ~lbuf[b].truncated THEN truncatedMsgLen ELSE 0
             allowed == IF remaining - reserve < 0 THEN 0 ELSE remaining - reserve
             b1 == IF allowed > 0 THEN BufWrite(lbuf[b].buffer, allowed)
                   ELSE lbuf[b].buffer
             b2 == IF reserve > 0 /\ remaining >= reserve THEN BufWriteMsg(b1) ELSE b1
         IN /\ lbuf' = [lbuf EXCEPT ![b] = [buffer |-> b2, truncated |-> TRUE]]
            /\ remaining' = 0
    ELSE /\ lbuf' = [lbuf EXCEPT ![b].buffer = BufWrite(@, p)]
         /\ remaining' = remaining - p

\* a Write that appends the marker without taking it out of the budget
WriteBody_NoReserve(b) ==
    /\ wr[b].pc = "crit"
    /\ IF remaining > 0 /\ wr[b].p > remaining
       THEN /\ lbuf' = [lbuf EXCEPT ![b] =
                          [buffer |-> BufWriteMsg(BufWrite(@.buffer, remaining)),
                           truncated |-> TRUE]]
            /\ remaining' = 0
       ELSE WriteEffect(b, wr[b].p)
    /\ cut' = [cut EXCEPT ![b] = @ \/ remaining < wr[b].p]
    /\ mu' = "free"
    /\ wr' = [wr EXCEPT ![b] = WrIdle(wr[b].p, wr[b].p, FALSE)]
    /\ UNCHANGED <<rpc, flags, executed, runExitCode, sent, exited, nwrites>>
    /\ UNCHANGED tuiVars

\* limitedBuffer.Write from the Lock to its return, the deferred Unlock
\* included; every path returns (len(p), nil)
WriteBody(b) ==
    /\ wr[b].pc = "crit"
    /\ WriteEffect(b, wr[b].p)
    /\ cut' = [cut EXCEPT ![b] = @ \/ remaining < wr[b].p]
    /\ mu' = "free"
    /\ wr' = [wr EXCEPT ![b] = WrIdle(wr[b].p, wr[b].p, FALSE)]
    /\ UNCHANGED <<rpc, flags, executed, runExitCode, sent, exited, nwrites>>
    /\ UNCHANGED tuiVars

\* execCmd.Run() fails before the command has started (command not found)
ExecFail ==
    /\ rpc = "running"
    /\ nwrites = 0
    /\ runExitCode' = -1
    /\ rpc' = "report"
    /\ UNCHANGED <<flags, executed, sent, exited, remaining, mu, lbuf, wr, nwrites, cut>>
    /\ UNCHANGED tuiVars

\* execCmd.Run() returns after the command has ended and its output has
\* been copied: nil for exit code 0, an ExitError otherwise
ExecReturn(c) ==
    /\ rpc = "running"
    /\ \A b \in Buffers : wr[b].pc = "idle"
    /\ runExitCode' = c
    /\ rpc' = "report"
    /\ UNCHANGED <<flags, executed, sent, exited, remaining, mu, lbuf, wr, nwrites, cut>>
    /\ UNCHANGED tuiVars

\* the check-in payload RunE builds
Payload ==
    [status |-> IF runExitCode = 0 THEN "success" ELSE "error",
     exit_code |-> runExitCode,
     stdout |-> lbuf["stdout"].buffer,
     stderr |-> lbuf["stderr"].buffer]

\* what can happen to the report: the request cannot be built, Do fails, or
\* the API answers 200 or another status
Outcomes == {"reqErr", "doErr", "ok", "non200"}

\* a report that is sent again when the API does not answer 200
Report_Retry(o) ==
    /\ rpc = "report"
    /\ sent' = IF o = "reqErr" THEN sent ELSE Append(sent, Payload)
    /\ rpc' = IF o = "non200" /\ Len(sent) < MaxWrites THEN "report" ELSE "exit"
    /\ UNCHANGED <<flags, executed, runExitCode, exited, remaining, mu, lbuf, wr, nwrites, cut>>
    /\ UNCHANGED tuiVars

\* the report: one http.DefaultClient.Do unless the request cannot be
\* built; every failure is only printed
Report(o) ==
    /\ rpc = "report"
    /\ sent' = IF o = "reqErr" THEN sent ELSE Append(sent, Payload)
    /\ rpc' = "exit"
    /\ UNCHANGED <<flags, executed, runExitCode, exited, remaining, mu, lbuf, wr, nwrites, cut>>
    /\ UNCHANGED tuiVars

\* the end of RunE: exitFunc(runExitCode), or return nil for exit code 0
RunExit ==
    /\ rpc = "exit"
    /\ exited' = <<runExitCode>>
    /\ rpc' = "done"
    /\ UNCHANGED <<flags, executed, runExitCode, sent, remaining, mu, lbuf, wr, nwrites, cut>>
    /\ UNCHANGED tuiVars

RunNext ==
    \/ \E i \in BOOLEAN, s \in BOOLEAN, k \in BOOLEAN : RunE(i, s, k)
    \/ \E b \in Buffers, n \in WriteSizes : WriteCall(b, n)
    \/ \E b \in Buffers : WriteLock(b)
    \/ \E b \in Buffers : WriteBody(b)
    \/ ExecFail
    \/ \E c \in ExitCodes : ExecReturn(c)
    \/ \E o \in Outcomes : Report(o)
    \/ RunExit

RunSpec == Init /\ [][RunNext]_vars

\* ---------------------------------------------------------- properties
\* a goroutine of Push takes a step of its own (not a step of the event
\* loop that lets it continue)
WorkerMoved ==
    \E v \in ViewIds :
        /\ wpc[v] \in {"check0", "fetch", "enq", "enqErr", "drawCheck"}
        /\ wpc'[v] # wpc[v]

\* the event loop executes the oldest queued update
Executes(type) ==
    /\ Len(queue) > 0
    /\ Head(queue).type = type
    /\ queue' = Tail(queue)

ViewName(v) == Name(kind[v], rec[v], v)

RECURSIVE Crumb(_)
Crumb(n) ==
    IF n = 0 THEN ""
    ELSE IF n = 1 THEN ViewName(navStack[1])
    ELSE Crumb(n - 1) \o " > " \o ViewName(navStack[n])

\* C1: once the root view has been pushed the navigation stack holds at
\* least one view in every state, and a Pop at depth 1 leaves the stack, the
\* pages and the breadcrumb as they were.
C1_StackNeverEmpty ==
    /\ [](started => Len(navStack) >= 1)
    /\ [][last' = "PopNoop" =>
            /\ Len(navStack) = 1
            /\ UNCHANGED <<navStack, pages, header>>]_vars

C1_Witness == last = "PopNoop" /\ Len(navStack) = 1 /\ nviews > 1

\* C2: every change of a displayed surface (rows, selection, pages and
\* overlays, header) is made by a step of the UI thread, never by a step of
\* a goroutine of Push.
C2_SurfaceOnUIThread ==
    [][<<rendered, sel, pages, header>>' # <<rendered, sel, pages, header>>
          => ~WorkerMoved]_vars

C2_Witness ==
    \E v \in ViewIds :
        /\ wpc[v] \in {"drawCheck", "waitDraw", "done"}
        /\ data[v] # <<>>
        /\ rendered[v] = data[v]

\* C3: the UI thread is never inside a view's Refresh: neither waiting for
\* the data client nor for the render queue.
C3_UINeverRefreshes == ui.pc \notin {"rFetch", "rEnq", "blocked"}

\* C4: once the lifecycle token is canceled, no goroutine of Push appends a
\* render callback or an error-overlay callback to the render queue.
C4_NoCallbackAfterCancel ==
    [][canceled =>
          ~(/\ Len(queue') = Len(queue) + 1
            /\ queue'[Len(queue')].type \in {"render", "error"}
            /\ queue'[Len(queue')].owner # 0)]_vars

RenderIdx(v) == {i \in 1..Len(queue) : queue[i].type = "render" /\ queue[i].view = v}

\* the buffer produced by the refresh whose render callback was queued last
LastMade(v) == queue[CHOOSE i \in RenderIdx(v) : \A j \in RenderIdx(v) : j <= i].made

\* C5: when two refreshes of one view overlapped and both have queued their
\* render callback, the rows finally shown are those produced by the refresh
\* that queued its callback last.
C5_LastEnqueuedWins ==
    \A v \in ViewIds :
        (/\ ~stopped
         /\ ui.pc = "blocked" /\ ui.view = v /\ ui.conc
         /\ wpc[v] = "waitRender"
         /\ LastMade(v) # <<>>)
        => rendered[v] = renderRows(v, LastMade(v))

\* C6: a failing refresh of a view changes neither the view's buffer nor its
\* rows: no step on the failure path of a goroutine of Push does, and when
\* the 'r' refresh fails with no other refresh of the view under way, buffer
\* and rows are what they were when 'r' was pressed.
C6_FailedRefreshKeepsData ==
    [][/\ \A v \in ViewIds :
            (\/ wpc[v] = "fetch" /\ wpc'[v] \in {"enqErr", "done"}
             \/ wpc[v] = "enqErr" /\ wpc'[v] # wpc[v]
             \/ Executes("error") /\ Head(queue).view = v)
            => data'[v] = data[v] /\ rendered'[v] = rendered[v]
       /\ (ui.pc = "rFetch" /\ ui'.pc = "idle") =>
            /\ data'[ui.view] = data[ui.view]
            /\ rendered'[ui.view] = rendered[ui.view]
            /\ ~ui.conc => /\ data'[ui.view] = ui.snapData
                           /\ rendered'[ui.view] = ui.snapRows]_vars

C6_Witness ==
    /\ last = "RFetchErr"
    /\ data[Top] # <<>>
    /\ rendered[Top] = data[Top]
    /\ TopPage(pages).name = "error"

\* C7: in every state after startup the header shows the names of the views
\* on the stack, root first, joined with " > ".
C7_Breadcrumb == started => header = HeaderPrefix \o Crumb(Len(navStack))

C7_Witness ==
    /\ Len(navStack) = 2
    /\ header = HeaderPrefix \o ViewName(navStack[1]) \o " > " \o ViewName(navStack[2])

\* C8: a Push appends the new view to the stack, makes its page the visible
\* one, starts the refresh goroutine of that view and of no other, and
\* returns with the UI thread idle and nothing of the view loaded yet.
C8_Push ==
    [][nviews' # nviews =>
          LET v == nviews'
          IN /\ navStack' = Append(navStack, v)
             /\ TopPage(pages').prim = ViewPrim(v)
             /\ TopPage(pages').name = PageName(Len(navStack'))
             /\ wpc'[v] = "check0"
             /\ \A u \in ViewIds \ {v} : wpc'[u] = wpc[u]
             /\ queue' = queue
             /\ ui'.pc = "idle"
             /\ data'[v] = <<>> /\ rendered'[v] = <<>>]_vars

C8_Witness == Len(navStack) >= 2 /\ wpc[Top] = "check0" /\ ui.pc = "idle"

\* C9: a Pop at depth greater than 1 removes only the top view, makes the
\* page of the new top the visible one, starts no refresh and leaves every
\* view's buffer, rows and selection unchanged.
C9_PopFrame ==
    [][Len(navStack') < Len(navStack) =>
          /\ navStack' = SubSeq(navStack, 1, Len(navStack) - 1)
          /\ TopPage(pages').prim = ViewPrim(navStack'[Len(navStack')])
          /\ ~HasPage(pages', PageName(Len(navStack)))
          /\ wpc' = wpc
          /\ queue' = queue
          /\ ui' = ui
          /\ data' = data /\ rendered' = rendered /\ sel' = sel]_vars

C9_Witness ==
    /\ nviews > Len(navStack)
    /\ Len(navStack) >= 1
    /\ data[Top] # <<>>
    /\ rendered[Top] = data[Top]
    /\ TopPage(pages).prim = ViewPrim(Top)

\* C10: a refresh task calls Refresh once and, unless the token is canceled,
\* delivers one outcome through the render queue: a table's goroutine that
\* has finished has had exactly one repaint or error overlay executed, and
\* an error overlay only ever appears by the execution of a queued update.
C10_OneOutcomeViaQueue ==
    /\ [](\A v \in ViewIds :
            /\ wh[v].calls <= 1
            /\ (wpc[v] = "done" /\ ~canceled /\ kind[v] # "menu") => wh[v].deliv = 1)
    /\ [][(pages' # pages /\ \E e \in Errs : pages' = ShowError(pages, Wrap(e)))
          => Executes("error")]_vars

\* a step of a refresh: of the goroutine of Push, of the 'r' handler, or the
\* execution of a queued update
RefreshStep == nviews' = nviews /\ (wpc' # wpc \/ ui' # ui \/ queue' # queue)

\* a step that changes the pages and leaves the help overlay on top
HelpStep == pages' # pages /\ TopPage(pages').name = "help"

\* C11: no step of a refresh (started by Push or by 'r', succeeding or
\* failing) and no showing of the help overlay changes the navigation stack
\* or the breadcrumb.
C11_RefreshHelpKeepStack ==
    [][(RefreshStep \/ HelpStep) => navStack' = navStack /\ header' = header]_vars

C11_Witness ==
    /\ Len(navStack) = 2
    /\ TopPage(pages).name = "help"
    /\ HasPage(pages, "error")
    /\ header = HeaderPrefix \o Crumb(2)

\* the key events of the model and what the input capture does with each
Keys == BackKeys \cup ViewKeys \cup {"CtrlC", "q", "r", "?"}

Dispatch(k) ==
    IF k \in BackKeys THEN KeyBack(k)
    ELSE IF k = "CtrlC" THEN KeyCtrlC
    ELSE IF k = "q" THEN KeyQuit
    ELSE IF k = "r" THEN KeyRefresh
    ELSE IF k = "?" THEN KeyHelp
    ELSE KeyView(k)

\* key k takes the error overlay away and leaves the stack and the data alone
Dismisses(k) ==
    /\ Dispatch(k)
    /\ ~HasPage(pages', "error")
    /\ navStack' = navStack
    /\ data' = data

\* C12: whenever the error overlay is displayed and the UI thread is in the
\* event loop, some key event dismisses the overlay without changing the
\* navigation stack or any view's data.
C12_ErrorDismissible ==
    (UIReady /\ TopPage(pages).name = "error")
        => \E k \in Keys : ENABLED Dismisses(k)

OnStack(v) == \E i \in 1..Len(navStack) : navStack[i] = v

\* a view that was pushed and has been popped
Popped(v) == kind[v] # "none" /\ ~OnStack(v)

\* C13: once a view has been popped, no step writes its data buffer or its
\* rows, and no error overlay of one of its refreshes is put on the screen.
C13_PoppedViewUntouched ==
    [][\A v \in ViewIds :
          Popped(v) =>
              /\ data'[v] = data[v]
              /\ rendered'[v] = rendered[v]
              /\ ~(Executes("error") /\ Head(queue).view = v)]_vars

\* C14: the quit key stops the application at depth 1 and leaves the stack
\* alone; at depth greater than 1 it performs exactly one Pop and does not
\* stop the application.
C14_Quit ==
    [][KeyQuit =>
          IF Len(navStack) = 1
          THEN stopped' /\ navStack' = navStack
          ELSE /\ ~stopped'
               /\ navStack' = SubSeq(navStack, 1, Len(navStack) - 1)
               /\ TopPage(pages').prim = ViewPrim(navStack'[Len(navStack')])]_vars

C14_Witness == last = "Quit" /\ stopped /\ Len(navStack) = 1 /\ nviews > 1

\* what one Pop at depth greater than 1 does to the stack and the pages
OnePop ==
    /\ navStack' = SubSeq(navStack, 1, Len(navStack) - 1)
    /\ TopPage(pages').prim = ViewPrim(navStack'[Len(navStack')])
    /\ ~HasPage(pages', PageName(Len(navStack)))

\* C15 as stated: Escape or Left performs exactly one Pop at depth greater
\* than 1; at depth 1 it changes neither the stack, the pages and overlays,
\* nor the top view's state, and the application keeps running.
C15_BackKeyNoopAtRoot ==
    [][\A k \in BackKeys :
          KeyBack(k) =>
              IF Len(navStack) > 1
              THEN OnePop /\ ~stopped'
              ELSE UNCHANGED <<navStack, header, pages, data, rendered, sel>> /\ ~stopped']_vars

\* C15 amended: at depth 1 Escape or Left leaves the stack, the header and
\* the top view's state unchanged and the application running; the pages
\* are unchanged too, except that Escape removes an overlay that is on top.
C15_BackKey ==
    [][\A k \in BackKeys :
          KeyBack(k) =>
              IF Len(navStack) > 1
              THEN OnePop /\ ~stopped'
              ELSE /\ UNCHANGED <<navStack, header, data, rendered, sel>>
                   /\ ~stopped'
                   /\ pages' = IF k = "Escape" /\ TopPage(pages).prim.type = "modal"
                               THEN RemovePage(pages, TopPage(pages).name)
                               ELSE pages]_vars

C15_Witness ==
    /\ last = "Dismiss"
    /\ Len(navStack) = 1
    /\ ~stopped
    /\ TopPage(pages).prim = ViewPrim(1)

\* C16: HandleInput of a view is never called with the quit, refresh or help
\* key (nor with Ctrl-C), and with Escape or Left only at depth 1.
C16_GlobalKeysFirst ==
    /\ hi.key \notin {"q", "r", "?", "CtrlC"}
    /\ hi.key \in BackKeys => hi.depth = 1

C16_Witness == hi.key = "Escape" /\ hi.depth = 1 /\ hi.view = 1 /\ nviews > 1

\* a key the input capture does not handle itself in the current state
NonGlobal(k) == k \in ViewKeys \/ (k \in BackKeys /\ Len(navStack) = 1)

\* what a key step can change besides the bookkeeping
Observable == <<navStack, nviews, pages, header, data, rendered, sel, stopped, queue, wpc, ui>>

C18_StopOnlyAtRoot == [][(~stopped /\ stopped') => Len(navStack) = 1]_vars

\* C18 amended: the application is stopped only by the quit key at depth 1
\* or by Ctrl-C (at any depth); no other key and no step of a refresh stops
\* it.
C18_StopOnlyByQuitOrCtrlC ==
    [][(~stopped /\ stopped') =>
          \/ last' = "Quit" /\ Len(navStack) = 1
          \/ last' = "CtrlC"]_vars

C18_Witness == stopped /\ last = "CtrlC" /\ Len(navStack) > 1

\* C19: the lifecycle token is canceled before the application stops
\* processing events: whenever the event loop has been stopped the token is
\* already canceled.
C19_CanceledBeforeStopped == stopped => canceled

\* a stop request made on an application that is already stopped
SecondStop == stopped /\ stops' = stops + 1

\* C20: a second stop request leaves the lifecycle token, the stack, the
\* pages with their overlays and the stopped application as the first one
\* left them; the lifecycle token changes only from live to canceled, so it
\* is canceled at most once and never becomes live again.
C20_ShutdownIdempotent ==
    [][/\ SecondStop => /\ canceled' = canceled
                        /\ stopped'
                        /\ navStack' = navStack
                        /\ pages' = pages
                        /\ header' = header
       /\ canceled => canceled']_vars

C20_Witness ==
    /\ stops = 2 /\ stopped /\ canceled
    /\ Len(navStack) > 1
    /\ HasPage(pages, "help")

\* C21: the key 'h' navigates as Escape and Left do: on a view that is not
\* the root it performs exactly one Pop (stack, page shown and header), and
\* on the root view it leaves the stack and the header unchanged; in both
\* cases the application keeps running.
C21_HGoesBack ==
    [][KeyView("h") =>
          IF Len(navStack) > 1
          THEN OnePop /\ header' = HeaderPrefix \o Crumb(Len(navStack) - 1) /\ ~stopped'
          ELSE UNCHANGED <<navStack, header>> /\ ~stopped']_vars

C21_Witness ==
    /\ hi.key = "h" /\ hi.depth = 3 /\ hi.consumed
    /\ kind[hi.view] = "table"
    /\ navStack = <<1, 2>>

\* C22: whatever Write calls the two limitedBuffers of one sharedLimiter
\* receive, in whatever order, their lengths (marker included) add up to at
\* most maxOutputSize, the limiter's remaining budget is never negative, and
\* every Write that has returned reported len(p) bytes and no error.
C22_SharedBudget ==
    /\ BufLen(lbuf["stdout"].buffer) + BufLen(lbuf["stderr"].buffer) <= maxOutputSize
    /\ remaining >= 0
    /\ \A b \in Buffers :
          wr[b].pc = "idle" => wr[b].ret = [n |-> wr[b].p, err |-> FALSE]

C22_Witness ==
    /\ BufLen(lbuf["stdout"].buffer) + BufLen(lbuf["stderr"].buffer) = maxOutputSize
    /\ BufLen(lbuf["stdout"].buffer) = maxOutputSize \div 2
    /\ HasMsg(lbuf["stderr"].buffer)
    /\ wr["stderr"].pc = "idle" /\ wr["stderr"].p = maxOutputSize \div 2 + 100
    /\ remaining = 0

\* C23: a limitedBuffer from whose captured content written bytes were cut
\* or discarded contains the marker "[output truncated]".
C23_CutIsMarked == \A b \in Buffers : cut[b] => HasMsg(lbuf[b].buffer)

\* C24: the run command ends with the exit code of the wrapped command (-1
\* when it could not be started), whatever became of the report, and hands
\* at most one check-in report to the HTTP client; when the flags are
\* invalid the wrapped command is not executed and nothing is reported.
C24_ExitCodeAndOneReport ==
    /\ [](/\ Len(sent) <= 1
          /\ exited # <<>> => exited = <<runExitCode>>
          /\ (rpc # "args" /\ ~FlagsValid(flags)) =>
                 rpc = "rejected" /\ ~executed /\ sent = <<>> /\ exited = <<>>
          /\ \A i \in 1..Len(sent) : sent[i].exit_code = runExitCode)
    /\ [][/\ ExecFail => runExitCode' = -1
          /\ \A c \in ExitCodes : ExecReturn(c) => runExitCode' = c
          /\ rpc \in {"report", "exit", "done"} => runExitCode' = runExitCode]_vars

C24_Witness ==
    /\ rpc = "done"
    /\ flags = [id |-> FALSE, slug |-> TRUE, key |-> TRUE]
    /\ exited = <<MaxExit>>
    /\ sent = <<>>
    /\ nwrites > 0

C26_StackOnUIThread ==
    [][navStack' # navStack =>
          /\ ~WorkerMoved
          /\ wpc' \in {wpc, [wpc EXCEPT ![nviews'] = "check0"]}
          /\ \/ Start
             \/ PopCall
             \/ KeyQuit
             \/ DrillDown
             \/ \E k \in BackKeys : KeyBack(k)
             \/ \E k \in ViewKeys : KeyView(k)
          /\ \/ nviews' = nviews + 1 /\ navStack' = Append(navStack, nviews')
             \/ /\ Len(navStack) > 1 /\ nviews' = nviews
                /\ navStack' = SubSeq(navStack, 1, Len(navStack) - 1)]_vars

C26_Witness ==
    /\ navStack = <<1, 3>> /\ nviews = 3
    /\ wpc[1] = "done" /\ wpc[2] = "done"
    /\ wpc[3] = "drawCheck"

\* the pages that hold a view's surface: every page but the overlays
ViewPages(ps) == SelectSeq(ps, LAMBDA p : p.prim.type = "view")

\* C27: at stack depth n >= 1 the pages other than overlay pages are exactly
\* page-1 .. page-n, each once, page-i holds the surface of the i-th view of
\* the stack, and the only visible one is page-n; no page of a popped view
\* is left.
C27_PagesMirrorStack ==
    started =>
        LET V == ViewPages(pages)
            n == Len(navStack)
        IN /\ n >= 1
           /\ Len(V) = n
           /\ \A i \in 1..n :
                 \E j \in 1..n : /\ V[j].name = PageName(i)
                                 /\ V[j].prim = ViewPrim(navStack[i])
                                 /\ V[j].visible = (i = n)
           /\ \A p \in 1..Len(pages) :
                 pages[p].prim.type = "modal" => pages[p].name \in {"error", "help"}

C27_Witness ==
    /\ navStack = <<1, 3>>
    /\ HasPage(pages, "error") /\ HasPage(pages, "help")
    /\ TopPage(pages).prim = ViewPrim(3)

\* the scheduler lets every goroutine that can take a step take one in the
\* end, and events keep arriving
LiveSpec == Spec /\ WF_vars(Next)

\* C28: whenever the refresh key has put the UI thread into the view's
\* Refresh, the UI thread is back in the event loop at some later time,
\* whether the fetch succeeds or fails.
C28_RefreshReturns == (ui.pc = "rFetch") ~> (ui.pc = "idle")

OverlayShown == TopPage(pages).prim.type = "modal"

\* C30: while an error or help overlay is displayed, a key event changes
\* neither the navigation stack nor any view's selection and starts no
\* refresh (the key that dismisses the overlay does none of these either).
C30_OverlayBlocksKeys ==
    [][(OverlayShown /\ \E k \in Keys : Dispatch(k)) =>
          /\ navStack' = navStack
          /\ sel' = sel
          /\ ui'.pc \notin {"rFetch", "drill"}]_vars

====
